---- MODULE Spec2Model ----
(***************************************************************************)
(* A model of the MDU course/program crawler (mdu_unified_crawler.py):     *)
(* the crawl driver UnifiedMDUCrawler.crawl with its fetcher, the two      *)
(* extractors as far as the driver reads their result, the date            *)
(* normalizer extract_date, the version index items_by_code, and the       *)
(* language detection detect_languages.                                    *)
(***************************************************************************)
EXTENDS Integers, Sequences, FiniteSets, TLC

(***************************************************************************)
(* Bounds of the model.                                                    *)
(***************************************************************************)
\* the largest page id of a crawl range
MaxId == 2
\* the largest year that a validity-date string of a page names
MaxYear == 2
\* the largest number of words of a text given to detect_languages
MaxLen == 3
\* the largest number of text sections of a program page
MaxSections == 3
\* the largest number of documents of a small course record file
MaxDocs == 3

VARIABLES
    crawl_type,     \* self.crawl_type: "course" or "program"
    start_id,       \* self.start_id
    end_id,         \* self.end_id
    no_delay,       \* self.no_delay
    state,          \* position of crawl(): Idle, Running, Flushing, Done, Failed
    item_id,        \* the loop variable of crawl(): the next id to handle
    items_by_code,  \* self.items_by_code: a dict in insertion order
    items_file,     \* lines of {kind}s.jsonl written by this invocation
    newest_file,    \* lines of newest_versions.jsonl written by this invocation
    html_dir,       \* ids whose raw page save_html has stored
    delays,         \* number of sleeps smart_delay has performed
    fetched,        \* history: the origin's response to each id handled so far
    text,           \* argument of detect_languages
    languages,      \* result of detect_languages
    sections,       \* extract_program_info: text_sections of the page
    section_pos,    \* extract_program_info: position of the section loop
    extract_pc,     \* extract_program_info: idle, loop, done
    current_year,   \* extract_program_info: current_year
    year_contents,  \* extract_program_info: year_contents
    goal_sections,  \* extract_program_info: goal_sections
    program_data,   \* extract_program_info: program_data
    found_language_section, \* extract_program_info: found_language_section
    docs,           \* load_courses: the documents the loader returned
    load_i,         \* load_courses: the loop variable i
    load_pc,        \* load_courses: idle, loop, done
    added,          \* load_courses: the documents handed to add_documents, in order
    add_calls,      \* load_courses: number of calls of add_documents
    empty_calls     \* load_courses: number of these calls with an empty batch

vars == <<crawl_type, start_id, end_id, no_delay, state, item_id, items_by_code,
          items_file, newest_file, html_dir, delays, fetched, text, languages,
          sections, section_pos, extract_pc, current_year, year_contents,
          goal_sections, program_data, found_language_section,
          docs, load_i, load_pc, added, add_calls, empty_calls>>

crawlVars == <<crawl_type, start_id, end_id, no_delay, state, item_id,
               items_by_code, items_file, newest_file, html_dir, delays, fetched>>

langVars == <<text, languages>>

progVars == <<sections, section_pos, extract_pc, current_year, year_contents,
              goal_sections, program_data, found_language_section>>

loadVars == <<docs, load_i, load_pc, added, add_calls, empty_calls>>

(***************************************************************************)
(* Python values.                                                          *)
(***************************************************************************)
\* Python's None, for values that are otherwise tuples
None == <<>>

\* a business code that is missing from the record or is the empty string:
\* record.get(key) is then falsy in `if code and date_str`
NoCode == "<none>"

Codes == {"A", "B"}

\* datetime.min = datetime(1, 1, 1); datetimes are <<year, month, day>>
DatetimeMin == <<1, 1, 1>>

\* a > b on datetimes
DtGreater(a, b) ==
    \/ a[1] > b[1]
    \/ a[1] = b[1] /\ a[2] > b[2]
    \/ a[1] = b[1] /\ a[2] = b[2] /\ a[3] > b[3]

\* datetime.isoformat() of a midnight datetime: "YYYY-MM-DDT00:00:00"
Isoformat(dt) == <<dt[1], dt[2], dt[3], "T", 0, 0, 0>>

\* str(n)
Str(n) == <<"str", n>>

(***************************************************************************)
(* The validity-date strings a page can carry.                             *)
(***************************************************************************)
IsoStrs == [fmt : {"iso"}, year : 1..MaxYear, month : {1, 8}, day : {1}]

SeasonStrs == [fmt : {"season"}, season : {"Hösttermin", "Vårtermin"},
               year : 0..MaxYear]

\* neither format: an unrecognized season token, free text
OtherStrs == {[fmt |-> "other"]}

\* the field is missing from the record or is the empty string
NoDate == [fmt |-> "absent"]

DateStrs == IsoStrs \cup SeasonStrs \cup OtherStrs

\* datetime.strptime(s.strip(), "%Y-%m-%d") raises ValueError
StrptimeFails(ds) ==
    \/ ds.fmt # "iso"
    \/ ~(ds.year \in 1..9999 /\ ds.month \in 1..12 /\ ds.day \in 1..28)

\* datetime(year, month, 1) raises ValueError: year 0 is below MINYEAR
DatetimeFails(year) == year < 1

\* extract_date lets a ValueError escape: the datetime constructor is called
\* inside the except clause
ExtractDateRaises(ds) ==
    /\ StrptimeFails(ds)
    /\ ds.fmt = "season"
    /\ DatetimeFails(ds.year)

\* extract_date's return value when it returns
ExtractDate(ds) ==
    IF ~StrptimeFails(ds) THEN <<ds.year, ds.month, ds.day>>
    ELSE IF ds.fmt = "season"
         THEN <<ds.year, IF ds.season = "Hösttermin" THEN 8 ELSE 1, 1>>
         ELSE None

(***************************************************************************)
(* The origin's responses.  A response is a transport error (timeout,      *)
(* non-2xx status), a page whose raw text contains the placeholder token   *)
(* $details.name, an empty body, or a page.  Of a page the model keeps     *)
(* what the driver reads from the extracted record: the business code of   *)
(* the details block, the validity-date string, and for a program page     *)
(* the <title> element: missing ("none"), with a parsed text that contains *)
(* the placeholder token although the raw text does not, as with an        *)
(* entity-encoded "$" ("token"), or any other title ("plain").             *)
(***************************************************************************)
NoPage(kind) == [kind |-> kind, title |-> "plain", code |-> NoCode, date_str |-> NoDate]

PlainPages == [kind : {"page"}, title : {"plain"}, code : Codes \cup {NoCode},
               date_str : DateStrs \cup {NoDate}]

OddTitlePages == [kind : {"page"}, title : {"none", "token"}, code : {NoCode},
                  date_str : {NoDate}]

Responses(type) ==
    {NoPage("transport_error"), NoPage("placeholder"), NoPage("empty")}
        \cup PlainPages
        \cup (IF type = "program" THEN OddTitlePages ELSE {})

\* self.base_urls
BaseUrl(type) ==
    IF type = "course" THEN "https://www.mdu.se/utbildning/kursplan"
    ELSE "https://www.mdu.se/utbildning/utbildningsplan"

\* f"{self.base_url}?id={item_id}"
Url(type, id) == <<BaseUrl(type), "?id=", id>>

\* fetch_page without the test for the placeholder token
FetchPageAnyText(resp) ==
    IF resp.kind = "transport_error" THEN None ELSE <<resp>>

\* fetch_page: None on an exception of the request and on a page that
\* contains the placeholder token, else response.text
FetchPage(resp) ==
    IF resp.kind = "transport_error" THEN None
    ELSE IF resp.kind = "placeholder" THEN None
    ELSE <<resp>>

\* `if content:` in crawl(): None and the empty string are falsy
Truthy(content) == content # None /\ content[1].kind # "empty"

(***************************************************************************)
(* The extractors.  A record (a Python dict) is a function from its keys.  *)
(***************************************************************************)
EmptyDict == [k \in {} |-> None]

\* d.get(key) is present and truthy
Has(d, key) == key \in DOMAIN d

\* the details-block entries of a page that crawl() reads
DetailFields(page, identifier_key) ==
    (IF page.code # NoCode THEN identifier_key :> page.code ELSE EmptyDict)
        @@ (IF page.date_str # NoDate THEN "giltig från" :> page.date_str ELSE EmptyDict)

\* extract_course_info
ExtractCourseInfo(page, course_id) ==
    ("source_id" :> Str(course_id)) @@ DetailFields(page, "kurskod")

\* extract_program_info raises UnboundLocalError: without a <title> element
\* title_text is read before it is assigned
ExtractProgramRaises(page) == page.title = "none"

\* extract_program_info when it returns
ExtractProgramInfo(page, program_id) ==
    IF page.title = "token"
    THEN ("source_id" :> Str(program_id)) @@ ("is_valid" :> FALSE)
    ELSE ("source_id" :> Str(program_id)) @@ DetailFields(page, "programkod")

\* the validity test without the is_valid mark
IsValidAlways(item_data) == TRUE

\* item_data.get('is_valid', True)
IsValid(item_data) == IF Has(item_data, "is_valid") THEN item_data["is_valid"] ELSE TRUE

IdentifierKey(type) == IF type = "course" THEN "kurskod" ELSE "programkod"

(***************************************************************************)
(* The version index: a defaultdict whose missing keys are created on      *)
(* read with the entry {"giltig_fran": datetime.min}.  It is a sequence of *)
(* [key, value] in insertion order.                                        *)
(***************************************************************************)
DefaultEntry == [giltig_fran |-> DatetimeMin]

Keys(d) == {d[i].key : i \in DOMAIN d}

\* d[k] for a key of d
Lookup(d, k) == d[CHOOSE i \in DOMAIN d : d[i].key = k].value

\* the dict after the read d[k]: __missing__ inserts the default entry
Touch(d, k) ==
    IF k \in Keys(d) THEN d ELSE Append(d, [key |-> k, value |-> DefaultEntry])

\* d[k] = v
SetItem(d, k, v) ==
    IF k \in Keys(d)
    THEN [i \in DOMAIN d |-> IF d[i].key = k THEN [key |-> k, value |-> v] ELSE d[i]]
    ELSE Append(d, [key |-> k, value |-> v])

\* current_data of crawl()
CurrentData(code, date, id) == [code |-> code, giltig_fran |-> date, id |-> id]

\* the comparison of crawl(): date > self.items_by_code[code].get('giltig_fran', ...)
IsNewer(date, entry) == DtGreater(date, entry.giltig_fran)

\* the index update of crawl() for a record with a code and a parsed date
UpdateIndex(d, code, date, id) ==
    LET touched == Touch(d, code)
    IN  IF IsNewer(date, Lookup(touched, code))
        THEN SetItem(touched, code, CurrentData(code, date, id))
        ELSE touched

\* one line of newest_versions.jsonl
VersionLine(code, entry) ==
    [code |-> code,
     giltig_fran |-> Isoformat(entry.giltig_fran),
     id |-> IF "id" \in DOMAIN entry THEN <<entry.id>> ELSE None]

(***************************************************************************)
(* The crawl driver.                                                       *)
(***************************************************************************)
\* current_year = None
NoYear == "None"

\* the keys of goal_sections
GoalLabels == {"kunskap och förståelse", "färdighet och förmåga",
               "värderingsförmåga och förhållningssätt"}

\* extract_program_info is not running
ProgIdle ==
    /\ sections = <<>>
    /\ section_pos = 1
    /\ extract_pc = "idle"
    /\ current_year = NoYear
    /\ year_contents = EmptyDict
    /\ goal_sections = [l \in GoalLabels |-> <<>>]
    /\ program_data = EmptyDict
    /\ found_language_section = FALSE

\* load_courses is not running
LoadIdle ==
    /\ docs = <<>>
    /\ load_i = 0
    /\ load_pc = "idle"
    /\ added = <<>>
    /\ add_calls = 0
    /\ empty_calls = 0

\* the state after __init__: the index is an empty defaultdict
Init ==
    /\ crawl_type \in {"course", "program"}
    /\ start_id \in 1..2
    /\ end_id \in (start_id - 1)..MaxId
    /\ no_delay \in BOOLEAN
    /\ state = "Idle"
    /\ item_id = start_id
    /\ items_by_code = <<>>
    /\ items_file = <<>>
    /\ newest_file = <<>>
    /\ html_dir = {}
    /\ delays = 0
    /\ fetched = <<>>
    /\ text = <<>>
    /\ languages = None
    /\ ProgIdle
    /\ LoadIdle

\* smart_delay: the number of sleeps after the call
SmartDelay(n) == IF no_delay THEN n ELSE n + 1

\* crawl() up to the loop: the index is cleared, {kind}s.jsonl is opened for
\* writing
StartCrawl ==
    /\ state = "Idle"
    /\ state' = "Running"
    /\ items_by_code' = <<>>
    /\ items_file' = <<>>
    /\ item_id' = start_id
    /\ UNCHANGED <<crawl_type, start_id, end_id, no_delay, newest_file, html_dir,
                   delays, fetched>>
    /\ UNCHANGED langVars
    /\ UNCHANGED progVars
    /\ UNCHANGED loadVars

\* the record with its url, as crawl() writes it to {kind}s.jsonl
WithUrl(item_data, id) == item_data @@ ("url" :> Url(crawl_type, id))

\* one iteration of the loop of crawl(), the origin answering resp
HandleId(resp) ==
    /\ state = "Running"
    /\ item_id <= end_id
    /\ fetched' = Append(fetched, resp)
    /\ LET content == FetchPage(resp) IN
       IF ~Truthy(content)
       THEN \* no page: only the pacing delay
            /\ delays' = SmartDelay(delays)
            /\ item_id' = item_id + 1
            /\ UNCHANGED <<state, items_by_code, items_file, html_dir>>
       ELSE
         LET page == content[1] IN
         /\ html_dir' = html_dir \cup {item_id}
         /\ IF crawl_type = "program" /\ ExtractProgramRaises(page)
            THEN \* the error leaves crawl()
                 /\ state' = "Failed"
                 /\ UNCHANGED <<item_id, items_by_code, items_file, delays>>
            ELSE
              LET item_data == IF crawl_type = "course"
                               THEN ExtractCourseInfo(page, item_id)
                               ELSE ExtractProgramInfo(page, item_id)
                  identifier_key == IdentifierKey(crawl_type)
                  indexable == Has(item_data, identifier_key) /\ Has(item_data, "giltig från")
              IN
              IF ~IsValid(item_data)
              THEN \* continue: neither the write nor the delay is reached
                   /\ item_id' = item_id + 1
                   /\ UNCHANGED <<state, items_by_code, items_file, delays>>
              ELSE IF indexable /\ ExtractDateRaises(item_data["giltig från"])
              THEN \* the error leaves crawl()
                   /\ state' = "Failed"
                   /\ UNCHANGED <<item_id, items_by_code, items_file, delays>>
              ELSE
                /\ items_by_code' =
                     IF indexable /\ ExtractDate(item_data["giltig från"]) # None
                     THEN UpdateIndex(items_by_code, item_data[identifier_key],
                                      ExtractDate(item_data["giltig från"]), item_id)
                     ELSE items_by_code
                /\ items_file' = Append(items_file, WithUrl(item_data, item_id))
                /\ delays' = SmartDelay(delays)
                /\ item_id' = item_id + 1
                /\ UNCHANGED state
    /\ UNCHANGED <<crawl_type, start_id, end_id, no_delay, newest_file>>
    /\ UNCHANGED langVars
    /\ UNCHANGED progVars
    /\ UNCHANGED loadVars

\* the loop of crawl() ends: {kind}s.jsonl is closed
EndLoop ==
    /\ state = "Running"
    /\ item_id > end_id
    /\ state' = "Flushing"
    /\ UNCHANGED <<crawl_type, start_id, end_id, no_delay, item_id, items_by_code,
                   items_file, newest_file, html_dir, delays, fetched>>
    /\ UNCHANGED langVars
    /\ UNCHANGED progVars
    /\ UNCHANGED loadVars

\* the lines crawl() writes to newest_versions.jsonl for the index d
FlushLines(d) == [i \in DOMAIN d |-> VersionLine(d[i].key, d[i].value)]

\* the flush indented into the loop: the version stream is rewritten while
\* the driver is Running
FlushVersionsInLoop ==
    /\ state = "Running"
    /\ newest_file # FlushLines(items_by_code)
    /\ newest_file' = FlushLines(items_by_code)
    /\ UNCHANGED <<crawl_type, start_id, end_id, no_delay, state, item_id, items_by_code,
                   items_file, html_dir, delays, fetched>>
    /\ UNCHANGED langVars
    /\ UNCHANGED progVars
    /\ UNCHANGED loadVars

\* crawl() after the loop: newest_versions.jsonl is opened for writing and
\* gets one line per key of the index
FlushVersions ==
    /\ state = "Flushing"
    /\ newest_file' = FlushLines(items_by_code)
    /\ state' = "Done"
    /\ UNCHANGED <<crawl_type, start_id, end_id, no_delay, item_id, items_by_code,
                   items_file, html_dir, delays, fetched>>
    /\ UNCHANGED langVars
    /\ UNCHANGED progVars
    /\ UNCHANGED loadVars

Next ==
    \/ StartCrawl
    \/ \E resp \in Responses(crawl_type) : HandleId(resp)
    \/ EndLoop
    \/ FlushVersions

Spec == Init /\ [][Next]_vars

(***************************************************************************)
(* Language detection.  A text is a sequence of words; a word of the model *)
(* is a single word of the page or the lead-in of an indicator phrase      *)
(* ("undervisningen sker på"), so that an indicator is a lead-in followed  *)
(* by the name of the language, and `indicator in text` is the occurrence  *)
(* of these two words next to each other.                                  *)
(***************************************************************************)
swedish_indicators == <<
    <<"huvudsakliga undervisningsspråket är", "svenska">>,
    <<"undervisning sker på", "svenska">>,
    <<"undervisningen sker på", "svenska">>,
    <<"undervisningen genomförs på", "svenska">>,
    <<"programmet ges på", "svenska">>,
    <<"programmet genomförs på", "svenska">>,
    <<"examination sker på", "svenska">> >>

english_indicators == <<
    <<"huvudsakliga undervisningsspråket är", "engelska">>,
    <<"undervisning sker på", "engelska">>,
    <<"undervisningen sker på", "engelska">>,
    <<"undervisningen genomförs på", "engelska">>,
    <<"programmet ges på", "engelska">>,
    <<"programmet genomförs på", "engelska">>,
    <<"examination sker på", "engelska">>,
    <<"kurslitteraturen är på", "engelska">>,
    <<"litteraturen är på", "engelska">> >>

\* the words of the texts of the model
Words == {"undervisningen sker på", "UNDERVISNINGEN SKER PÅ", "kurslitteraturen är på",
          "svenska", "Svenska", "engelska", "och"}

Texts == UNION {[1..n -> Words] : n \in 0..MaxLen}

\* str.lower() of a word
LowerWord(w) ==
    CASE w = "UNDERVISNINGEN SKER PÅ" -> "undervisningen sker på"
      [] w = "Svenska" -> "svenska"
      [] OTHER -> w

\* text.lower()
Lower(t) == [i \in DOMAIN t |-> LowerWord(t[i])]

\* `phrase in t`: phrase occurs in t as a contiguous part
In(phrase, t) ==
    \E i \in 0..(Len(t) - Len(phrase)) :
        \A j \in 1..Len(phrase) : t[i + j] = phrase[j]

\* `for indicator in indicators: if indicator in text: ...; break`, from the
\* i-th indicator on: is the language added
RECURSIVE AnyIndicator(_, _, _)
AnyIndicator(indicators, t, i) ==
    IF i > Len(indicators) THEN FALSE
    ELSE IF In(indicators[i], t) THEN TRUE
    ELSE AnyIndicator(indicators, t, i + 1)

\* the set `languages` after the two indicator loops
IndicatorLanguages(t) ==
    (IF AnyIndicator(swedish_indicators, t, 1) THEN {"svenska"} ELSE {})
        \cup (IF AnyIndicator(english_indicators, t, 1) THEN {"engelska"} ELSE {})

\* the bare-word tests without `if not languages:`
FallbackAlways(found, t) ==
    found \cup (IF In(<<"svenska">>, t) THEN {"svenska"} ELSE {})
          \cup (IF In(<<"engelska">>, t) THEN {"engelska"} ELSE {})

\* the bare-word fallback: `if not languages:` and the two substring tests
Fallback(found, t) ==
    IF found = {}
    THEN (IF In(<<"svenska">>, t) THEN {"svenska"} ELSE {})
            \cup (IF In(<<"engelska">>, t) THEN {"engelska"} ELSE {})
    ELSE found

\* sorted(list(languages)): "engelska" < "svenska"
Sorted(langs) ==
    (IF "engelska" \in langs THEN <<"engelska">> ELSE <<>>)
        \o (IF "svenska" \in langs THEN <<"svenska">> ELSE <<>>)

\* detect_languages
DetectLanguages(t) ==
    LET lowered == Lower(t)
    IN  Sorted(Fallback(IndicatorLanguages(lowered), lowered))

\* a text is given to detect_languages; the crawler is not running
InitLang ==
    /\ text \in Texts
    /\ languages = None
    /\ crawl_type = "program"
    /\ start_id = 1
    /\ end_id = 0
    /\ no_delay = FALSE
    /\ state = "Idle"
    /\ item_id = 1
    /\ items_by_code = <<>>
    /\ items_file = <<>>
    /\ newest_file = <<>>
    /\ html_dir = {}
    /\ delays = 0
    /\ fetched = <<>>
    /\ ProgIdle
    /\ LoadIdle

\* the call detect_languages(text)
Detect ==
    /\ languages = None
    /\ languages' = <<DetectLanguages(text)>>
    /\ UNCHANGED text
    /\ UNCHANGED crawlVars
    /\ UNCHANGED progVars
    /\ UNCHANGED loadVars

NextLang == Detect

SpecLang == InitLang /\ [][NextLang]_vars

(***************************************************************************)
(* Notions of the properties, stated on the history of responses.          *)
(***************************************************************************)
\* the id whose response is fetched[i]
IdAt(i) == start_id + i - 1

\* the response is a page whose record is marked is_valid false
MarkedInvalid(resp) == crawl_type = "program" /\ resp.title = "token"

\* the validity date of the response parses
DateParses(resp) ==
    /\ resp.date_str # NoDate
    /\ ~ExtractDateRaises(resp.date_str)
    /\ ExtractDate(resp.date_str) # None

\* the record of the response is indexable: a page with a record that is not
\* marked invalid, with a code and a validity date that parses
Indexable(resp) ==
    /\ resp.kind = "page"
    /\ resp.title = "plain"
    /\ resp.code # NoCode
    /\ DateParses(resp)

\* the positions of the indexable records of code c handled so far
IndexableOf(c) == {i \in DOMAIN fetched : Indexable(fetched[i]) /\ fetched[i].code = c}

\* the parsed validity date of the record at position i
DateAt(i) == ExtractDate(fetched[i].date_str)

\* the version entry built from the record at position i
EntryAt(i) == [code |-> fetched[i].code, giltig_fran |-> DateAt(i), id |-> IdAt(i)]

\* the first position among those of I with the maximum date
Latest(I) ==
    CHOOSE i \in I :
        \A j \in I : /\ ~DtGreater(DateAt(j), DateAt(i))
                     /\ (DateAt(j) = DateAt(i) => i <= j)

\* the crawl has been started
Started == state # "Idle"

\* C1: after any prefix of the ID range, the version index has at most one
\* entry per code, a code has an entry exactly if an indexable record of it
\* was handled, and the entry is the one built from the first record with the
\* maximum validity date among the indexable records of the code.
C1_IndexHoldsLatest ==
    Started =>
        /\ \A i, j \in DOMAIN items_by_code :
               items_by_code[i].key = items_by_code[j].key => i = j
        /\ \A c \in Codes :
               IF IndexableOf(c) = {}
               THEN c \notin Keys(items_by_code)
               ELSE /\ c \in Keys(items_by_code)
                    /\ Lookup(items_by_code, c) = EntryAt(Latest(IndexableOf(c)))

\* C2: a record with a code that has no index entry yet and with a validity
\* date that parses installs itself: right after it is handled the entry of
\* the code is the one built from this record.
C2_FirstDatedRecordInstalls ==
    [][\A resp \in Responses(crawl_type) :
          (HandleId(resp) /\ Indexable(resp) /\ resp.code \notin Keys(items_by_code))
              => /\ resp.code \in Keys(items_by_code')
                 /\ Lookup(items_by_code', resp.code)
                        = CurrentData(resp.code, ExtractDate(resp.date_str), item_id)]_vars

\* the indexable records of code c in the order handled, as positions
RECURSIVE PositionsOf(_, _)
PositionsOf(c, n) ==
    IF n = 0 THEN <<>>
    ELSE IF n \in IndexableOf(c) THEN Append(PositionsOf(c, n - 1), n)
    ELSE PositionsOf(c, n - 1)

\* the positions ps have strictly increasing validity dates
Increasing(ps) == \A k \in 1..(Len(ps) - 1) : DtGreater(DateAt(ps[k + 1]), DateAt(ps[k]))

Reverse(ps) == [k \in DOMAIN ps |-> ps[Len(ps) + 1 - k]]

\* the index after the driver's update for the records at positions ps, in
\* this order, from the index d
RECURSIVE IndexAfter(_, _)
IndexAfter(d, ps) ==
    IF ps = <<>> THEN d
    ELSE IndexAfter(UpdateIndex(d, fetched[Head(ps)].code, DateAt(Head(ps)), IdAt(Head(ps))),
                    Tail(ps))

\* C3: when the records of a code handled in the pass have strictly
\* increasing validity dates, the entry of the code after the loop is the one
\* of the record with the maximum date (the last one), and handling the
\* records in reverse order gives the same entry.
C3_IncreasingDatesOrderIndependent ==
    state \in {"Flushing", "Done"} =>
        \A c \in Codes :
            LET ps == PositionsOf(c, Len(fetched)) IN
            (ps # <<>> /\ Increasing(ps)) =>
                /\ c \in Keys(items_by_code)
                /\ Lookup(items_by_code, c) = EntryAt(ps[Len(ps)])
                /\ Lookup(IndexAfter(<<>>, Reverse(ps)), c) = EntryAt(ps[Len(ps)])

\* the elements of a finite set of integers in ascending order
Ascending(S) ==
    [k \in 1..Cardinality(S) |-> CHOOSE x \in S : Cardinality({y \in S : y < x}) = k - 1]

\* the line is a record marked is_valid false
LineMarkedInvalid(line) == "is_valid" \in DOMAIN line /\ line["is_valid"] = FALSE

\* the primary stream is exactly one line per position of ps, in this
\* order, each with the id as source_id and its url, none marked invalid
PrimaryStreamIs(ps) ==
    /\ Len(items_file) = Len(ps)
    /\ \A k \in DOMAIN ps :
           /\ items_file[k]["source_id"] = Str(IdAt(ps[k]))
           /\ items_file[k]["url"] = Url(crawl_type, IdAt(ps[k]))
           /\ ~LineMarkedInvalid(items_file[k])

\* the positions whose fetch met no transport error and no placeholder token
\* and whose record is not marked invalid
ReturnedValid ==
    {i \in DOMAIN fetched : /\ fetched[i].kind \notin {"transport_error", "placeholder"}
                            /\ ~MarkedInvalid(fetched[i])}

\* the positions whose fetch returned a non-empty page and whose record is
\* not marked invalid
NonEmptyValid == {i \in ReturnedValid : fetched[i].kind # "empty"}

\* C4 as stated: at Done the primary stream is one line, in ascending id
\* order, for each id whose fetch met no transport error and no placeholder
\* token and whose record is not marked invalid, and nothing else.
C4_PrimaryStreamOfReturnedPages ==
    state = "Done" => PrimaryStreamIs(Ascending(ReturnedValid))

\* C4 amended: at Done the primary stream is one line, in ascending id
\* order, for each id whose fetch returned a non-empty page (no transport
\* error, no placeholder token, a body that is not empty) and whose record is
\* not marked invalid, each with the id as source_id and its url, and no
\* other line; no line is marked is_valid false.
C4_PrimaryStreamOfNonEmptyPages ==
    state = "Done" => PrimaryStreamIs(Ascending(NonEmptyValid))

\* a crawl is over that met an empty body and then a page with a valid record
C4_Witness ==
    /\ state = "Done"
    /\ Len(fetched) = 2
    /\ fetched[1].kind = "empty"
    /\ fetched[2].kind = "page" /\ ~MarkedInvalid(fetched[2])
    /\ Len(items_file) = 1
    /\ items_file[1]["source_id"] = Str(end_id)

\* C5: no error escapes crawl(): the driver never fails, and it is in
\* Flushing or Done only with every id of the range handled.
C5_NoErrorIsFatal ==
    /\ state # "Failed"
    /\ state \in {"Flushing", "Done"} => Len(fetched) = end_id - start_id + 1

\* the crawl of a single id whose page contains the placeholder token is over
PlaceholderCrawlDone ==
    /\ state = "Done"
    /\ start_id = end_id
    /\ fetched = <<NoPage("placeholder")>>

\* C6 as stated: a single-id crawl of a page with the placeholder token
\* gives, for a course crawl, no line in the primary stream and none in the
\* version stream, and for a program crawl exactly one line in the primary
\* stream, marked is_valid false.
C6_PlaceholderOneInvalidLine ==
    PlaceholderCrawlDone =>
        IF crawl_type = "course"
        THEN items_file = <<>> /\ newest_file = <<>>
        ELSE Len(items_file) = 1 /\ LineMarkedInvalid(items_file[1])

\* C6 amended: a single-id crawl of a page with the placeholder token gives
\* no line in the primary stream and none in the version stream, for a
\* course crawl and for a program crawl.
C6_PlaceholderNoLine ==
    PlaceholderCrawlDone => items_file = <<>> /\ newest_file = <<>>

C6_Witness == PlaceholderCrawlDone /\ crawl_type = "program" /\ items_file = <<>>

\* C7: while the driver is Running (and before, and when it failed), this
\* invocation has written nothing to the version stream, while the primary
\* stream has the lines of the ids handled so far; the version stream is
\* written only with every id of the range handled.
C7_VersionsFlushedOnlyAtEnd ==
    /\ state \in {"Idle", "Running", "Failed"} => newest_file = <<>>
    /\ state = "Running" => PrimaryStreamIs(Ascending(NonEmptyValid))
    /\ state = "Done" => item_id = end_id + 1 /\ Len(fetched) = end_id - start_id + 1

C7_Witness ==
    /\ state = "Running"
    /\ item_id <= end_id
    /\ items_by_code # <<>>
    /\ items_file # <<>>
    /\ newest_file = <<>>

\* C8: at Done the version stream has exactly one line per code that an
\* indexable record of the pass carries, no two lines share a code, and each
\* line has the source id and the parsed validity date of a record of the
\* pass with this code.
C8_VersionStreamOfRealEntries ==
    state = "Done" =>
        /\ {newest_file[k].code : k \in DOMAIN newest_file}
               = {c \in Codes : IndexableOf(c) # {}}
        /\ \A k, l \in DOMAIN newest_file :
               newest_file[k].code = newest_file[l].code => k = l
        /\ \A k \in DOMAIN newest_file :
               \E i \in IndexableOf(newest_file[k].code) :
                   /\ newest_file[k].id = <<IdAt(i)>>
                   /\ newest_file[k].giltig_fran = Isoformat(DateAt(i))

\* the Date Normalizer gives no date for the string
CannotParse(ds) == ds # NoDate /\ (ExtractDateRaises(ds) \/ ExtractDate(ds) = None)

\* the response is a page with a record that lacks the code, lacks the
\* validity date, or has a validity date that does not parse
NotComparable(resp) ==
    /\ resp.kind = "page"
    /\ resp.title = "plain"
    /\ (resp.code = NoCode \/ resp.date_str = NoDate \/ CannotParse(resp.date_str))

\* C9: handling an id whose record lacks the code or the validity date, or
\* has a validity date that does not parse, leaves the version index
\* unchanged and appends the record to the primary stream.
C9_NotComparableStillPersisted ==
    [][\A resp \in Responses(crawl_type) :
          (HandleId(resp) /\ NotComparable(resp))
              => /\ items_by_code' = items_by_code
                 /\ Len(items_file') = Len(items_file) + 1
                 /\ SubSeq(items_file', 1, Len(items_file)) = items_file
                 /\ items_file'[Len(items_file')]["source_id"] = Str(item_id)]_vars

\* an indicator of the list occurs in the case-folded text
PhraseOccurs(indicators, t) ==
    \E k \in DOMAIN indicators : In(indicators[k], Lower(t))

\* the bare word occurs in the case-folded text
WordOccurs(w, t) == \E i \in DOMAIN t : LowerWord(t[i]) = w

\* the language is detected: by a phrase of its own, or by its bare word when
\* no phrase of either language occurs
Detected(indicators, w, t) ==
    \/ PhraseOccurs(indicators, t)
    \/ /\ ~PhraseOccurs(swedish_indicators, t)
       /\ ~PhraseOccurs(english_indicators, t)
       /\ WordOccurs(w, t)

Handled(i) == i < Len(fetched) \/ state # "Failed"

\* C11: with delays enabled the pacing delay has been applied exactly once
\* for every id handled so far, whatever its outcome (page absent, record
\* marked invalid, record persisted); with the no-delay flag it is never
\* applied.
C11_OneDelayPerId ==
    delays = IF no_delay THEN 0
             ELSE Cardinality({i \in DOMAIN fetched : Handled(i)})

(***************************************************************************)
(* The section loop of extract_program_info.  A text section has the text  *)
(* of its first h2/h3 header (NoHeader without one), the texts of its <p>  *)
(* elements, and the stripped strings of the header's following siblings.  *)
(* A text is a sequence of words, as for detect_languages.                 *)
(***************************************************************************)
NoHeader == "<no header>"

YearHeaders == {"Årskurs 1", "årskurs 2"}

Headers == {"Innehåll", "Undervisningsspråk", "Kunskap och förståelse",
            "färdighet och förmåga", "Övrigt"} \cup YearHeaders

\* header.get_text(strip=True).lower()
LowerHeader(h) ==
    CASE h = "Innehåll" -> "innehåll"
      [] h = "Undervisningsspråk" -> "undervisningsspråk"
      [] h = "Kunskap och förståelse" -> "kunskap och förståelse"
      [] h = "Övrigt" -> "övrigt"
      [] h = "Årskurs 1" -> "årskurs 1"
      [] OTHER -> h

\* "årskurs" in header_text
HasYearToken(header_text) == header_text \in {"årskurs 1", "årskurs 2"}

\* the sibling strings of a section: none, one, or two that join to an
\* indicator phrase
SiblingTexts(h) ==
    IF h = "Undervisningsspråk"
    THEN {<<>>, << <<"svenska">> >>, << <<"undervisningen sker på">>, <<"engelska", "svenska">> >>}
    ELSE IF h \in YearHeaders THEN {<<>>}
    ELSE {<<>>, << <<"svenska">> >>}

\* the <p> elements of a section, read for "innehåll" only
ParagraphTexts(h) == IF h = "Innehåll" THEN {<<>>, << <<"och">>, <<"svenska">> >>} ELSE {<<>>}

Sections ==
    {[header |-> NoHeader, paragraphs |-> <<>>, content |-> <<>>]}
        \cup UNION {[header : {h}, paragraphs : ParagraphTexts(h), content : SiblingTexts(h)]
                        : h \in Headers}

\* " ".join(texts)
RECURSIVE Join(_)
Join(texts) == IF texts = <<>> THEN <<>> ELSE Head(texts) \o Join(Tail(texts))

\* d[k] = v on a dict
Put(d, k, v) == [x \in DOMAIN d \cup {k} |-> IF x = k THEN v ELSE d[x]]

\* defaultdict(list): d[k].append(v)
AppendTo(d, k, v) == Put(d, k, IF k \in DOMAIN d THEN Append(d[k], v) ELSE <<v>>)

\* the if/elif chain with the goal test before the year test
ClassifyGoalFirst(header_text, year) ==
    IF header_text = "undervisningsspråk" THEN "language"
    ELSE IF header_text \in GoalLabels THEN "goal"
    ELSE IF year # NoYear THEN "year"
    ELSE "flat"

\* the if/elif chain of the section loop for a section with content
Classify(header_text, year) ==
    IF header_text = "undervisningsspråk" THEN "language"
    ELSE IF year # NoYear THEN "year"
    ELSE IF header_text \in GoalLabels THEN "goal"
    ELSE "flat"

\* extract_program_info reaches the section loop of a page
InitProg ==
    /\ sections \in UNION {[1..n -> Sections] : n \in 0..MaxSections}
    /\ section_pos = 1
    /\ extract_pc = "loop"
    /\ current_year = NoYear
    /\ year_contents = EmptyDict
    /\ goal_sections = [l \in GoalLabels |-> <<>>]
    /\ program_data = EmptyDict
    /\ found_language_section = FALSE
    /\ text = <<>>
    /\ languages = None
    /\ crawl_type = "program"
    /\ start_id = 1
    /\ end_id = 1
    /\ no_delay = FALSE
    /\ state = "Running"
    /\ item_id = 1
    /\ items_by_code = <<>>
    /\ items_file = <<>>
    /\ newest_file = <<>>
    /\ html_dir = {1}
    /\ delays = 0
    /\ fetched = <<>>
    /\ LoadIdle

\* one iteration of `for section in text_sections`
ClassifySection ==
    /\ extract_pc = "loop"
    /\ section_pos <= Len(sections)
    /\ section_pos' = section_pos + 1
    /\ LET section == sections[section_pos]
           header_text == LowerHeader(section.header)
           content_text == Join(section.content)
           class == Classify(header_text, current_year)
       IN
       IF section.header = NoHeader
       THEN UNCHANGED <<current_year, year_contents, goal_sections, program_data,
                        found_language_section>>
       ELSE IF header_text = "innehåll" /\ section.paragraphs # <<>>
       THEN /\ program_data' = Put(program_data, "innehåll", Join(section.paragraphs))
            /\ UNCHANGED <<current_year, year_contents, goal_sections,
                           found_language_section>>
       ELSE IF HasYearToken(header_text)
       THEN /\ current_year' = header_text
            /\ UNCHANGED <<year_contents, goal_sections, program_data,
                           found_language_section>>
       ELSE IF section.content = <<>>
       THEN UNCHANGED <<current_year, year_contents, goal_sections, program_data,
                        found_language_section>>
       ELSE
         /\ found_language_section' = (found_language_section \/ class = "language")
         /\ program_data' =
              IF class = "language"
              THEN Put(program_data, "undervisningsspråk", DetectLanguages(content_text))
              ELSE IF class = "flat" THEN Put(program_data, header_text, content_text)
              ELSE program_data
         /\ year_contents' =
              IF class = "year" THEN AppendTo(year_contents, current_year, content_text)
              ELSE year_contents
         /\ goal_sections' =
              IF class = "goal"
              THEN [goal_sections EXCEPT ![header_text] = Append(@, content_text)]
              ELSE goal_sections
         /\ UNCHANGED current_year
    /\ UNCHANGED <<sections, extract_pc>>
    /\ UNCHANGED <<crawlVars, langVars, loadVars>>

\* program_data with the field of every goal bucket that has content
WithGoals(d, goals) ==
    [k \in DOMAIN d \cup {l \in GoalLabels : goals[l] # <<>>} |->
        IF k \in GoalLabels /\ goals[k] # <<>> THEN Join(goals[k]) ELSE d[k]]

\* extract_program_info after the loop: the default of the language field,
\* the goal fields, the year buckets, source_id
FinishExtract ==
    /\ extract_pc = "loop"
    /\ section_pos > Len(sections)
    /\ extract_pc' = "done"
    /\ LET with_language == IF ~found_language_section
                            THEN Put(program_data, "undervisningsspråk", <<>>)
                            ELSE program_data
           with_goals == WithGoals(with_language, goal_sections)
           with_years == IF year_contents # EmptyDict
                         THEN Put(with_goals, "årskurser", year_contents)
                         ELSE with_goals
       IN program_data' = Put(with_years, "source_id", Str(item_id))
    /\ UNCHANGED <<sections, section_pos, current_year, year_contents, goal_sections,
                   found_language_section>>
    /\ UNCHANGED <<crawlVars, langVars, loadVars>>

NextProg ==
    \/ ClassifySection
    \/ FinishExtract

SpecProg == InitProg /\ [][NextProg]_vars

\* the section is one whose text goes to a bucket or a field: it has a header
\* without the year token, is neither the teaching-language section nor an
\* "innehåll" section, and has sibling text
OrdinarySection(section) ==
    /\ section.header # NoHeader
    /\ ~HasYearToken(LowerHeader(section.header))
    /\ LowerHeader(section.header) \notin {"undervisningsspråk", "innehåll"}
    /\ section.content # <<>>

\* the bucket of year y in the buckets b
Bucket(b, y) == IF y \in DOMAIN b THEN b[y] ELSE <<>>

\* the positions of the teaching-language sections with text
LanguagePositions ==
    {i \in DOMAIN sections : /\ LowerHeader(sections[i].header) = "undervisningsspråk"
                             /\ sections[i].content # <<>>}

\* the last of them
LastLanguage == CHOOSE i \in LanguagePositions : \A j \in LanguagePositions : j <= i

\* C12: the sections are classified in document order with a persistent
\* year marker.  A header with the year token sets the marker and gives no
\* field, and nothing else changes the marker.  With a marker set, the text of
\* a section other than the teaching-language and "innehåll" sections is
\* appended to the bucket of the marker and changes neither a flat field nor
\* a learning-outcome bucket.  A learning-outcome bucket gets a text only from
\* a section with one of the three labels while no marker is set.  At the
\* end the teaching-language field is the list detected in the (last)
\* teaching-language section with text, and the empty list without one.
C12_SectionsClassifiedByYearMarker ==
    [][/\ ClassifySection =>
            LET section == sections[section_pos]
                header_text == LowerHeader(section.header)
            IN
            /\ IF section.header # NoHeader /\ HasYearToken(header_text)
               THEN /\ current_year' = header_text
                    /\ program_data' = program_data
                    /\ year_contents' = year_contents
                    /\ goal_sections' = goal_sections
               ELSE current_year' = current_year
            /\ (current_year # NoYear /\ OrdinarySection(section)) =>
                    /\ Bucket(year_contents', current_year)
                           = Append(Bucket(year_contents, current_year), Join(section.content))
                    /\ \A y \in DOMAIN year_contents' \ {current_year} :
                           Bucket(year_contents', y) = Bucket(year_contents, y)
                    /\ program_data' = program_data
                    /\ goal_sections' = goal_sections
            /\ goal_sections' # goal_sections =>
                    /\ header_text \in GoalLabels
                    /\ current_year = NoYear
                    /\ goal_sections' = [goal_sections EXCEPT
                           ![header_text] = Append(@, Join(section.content))]
       /\ FinishExtract =>
            /\ "undervisningsspråk" \in DOMAIN program_data'
            /\ program_data'["undervisningsspråk"] =
                   IF LanguagePositions = {} THEN <<>>
                   ELSE DetectLanguages(Join(sections[LastLanguage].content))
            /\ \A k \in DOMAIN program_data' : ~HasYearToken(k)
      ]_vars

\* a page with a year header and after it a learning-outcome section with
\* text, and no teaching-language section: the text is in the year bucket
C12_Witness ==
    /\ extract_pc = "done"
    /\ Len(sections) >= 2
    /\ LowerHeader(sections[1].header) = "årskurs 1"
    /\ LowerHeader(sections[2].header) = "kunskap och förståelse"
    /\ sections[2].content # <<>>
    /\ \A i \in DOMAIN sections : LowerHeader(sections[i].header) # "undervisningsspråk"
    /\ "årskurser" \in DOMAIN program_data
    /\ program_data["årskurser"]["årskurs 1"][1] = Join(sections[2].content)
    /\ "kunskap och förståelse" \notin DOMAIN program_data
    /\ program_data["undervisningsspråk"] = <<>>

(***************************************************************************)
(* The course ingestion load_courses of populate_database.py.  A document  *)
(* is its position in the record file; the vector store is the record of   *)
(* the calls of add_documents.                                             *)
(***************************************************************************)
\* the stop value of range(len(docs), 5000)
RangeStop == 5000

\* the length of the slice docs[i:i+5000]
BatchSize == 5000

\* the documents loader.load() returns for a file of n records
Loaded(n) == [k \in 1..n |-> k]

\* the Python slice s[a:b] for 0 <= a <= b
Slice(s, a, b) == SubSeq(s, a + 1, IF b < Len(s) THEN b ELSE Len(s))

\* load_courses up to the loop: the file is small, or has as many records
\* as the stop value of the range or more
InitLoad ==
    /\ docs \in {Loaded(n) : n \in (0..MaxDocs) \cup {RangeStop, RangeStop + 1}}
    /\ load_i = Len(docs)
    /\ load_pc = "loop"
    /\ added = <<>>
    /\ add_calls = 0
    /\ empty_calls = 0
    /\ text = <<>>
    /\ languages = None
    /\ crawl_type = "course"
    /\ start_id = 1
    /\ end_id = 0
    /\ no_delay = FALSE
    /\ state = "Idle"
    /\ item_id = 1
    /\ items_by_code = <<>>
    /\ items_file = <<>>
    /\ newest_file = <<>>
    /\ html_dir = {}
    /\ delays = 0
    /\ fetched = <<>>
    /\ ProgIdle

\* one iteration of `for i in range(len(docs), 5000)`:
\* vector_store.add_documents(docs[i:i+5000])
AddBatch ==
    /\ load_pc = "loop"
    /\ load_i < RangeStop
    /\ LET batch == Slice(docs, load_i, load_i + BatchSize) IN
       /\ added' = added \o batch
       /\ add_calls' = add_calls + 1
       /\ empty_calls' = IF batch = <<>> THEN empty_calls + 1 ELSE empty_calls
    /\ load_i' = load_i + 1
    /\ UNCHANGED <<docs, load_pc>>
    /\ UNCHANGED <<crawlVars, langVars, progVars>>

\* the range is exhausted: "Courses sucessfully added to DB"
EndLoad ==
    /\ load_pc = "loop"
    /\ load_i >= RangeStop
    /\ load_pc' = "done"
    /\ UNCHANGED <<docs, load_i, added, add_calls, empty_calls>>
    /\ UNCHANGED <<crawlVars, langVars, progVars>>

NextLoad ==
    \/ AddBatch
    \/ EndLoad

SpecLoad == InitLoad /\ [][NextLoad]_vars

\* C13: load_courses hands every loaded document to add_documents exactly
\* once, in consecutive batches in file order, for every number of documents:
\* no batch is empty, and at the end no document is left out.
C13_EveryDocumentAddedOnce ==
    /\ empty_calls = 0
    /\ load_pc = "done" => added = docs

====
